---- MODULE Spec2Model ----
(***************************************************************************)
(* Model of the closure-based stream library in streams.go.                *)
(*                                                                         *)
(* A Stream[T] is a closure func() (T, bool).  A closure is modelled by a  *)
(* record holding its captured variables (kind, captured upstream streams, *)
(* captured function, cursor); calling it is the operator Call, which      *)
(* returns the produced value, the has-value flag, the closure's captured  *)
(* state after the call and the channel after the call.                    *)
(*                                                                         *)
(* The consumers ForEach and ForEachControl are loops; one action is one   *)
(* loop iteration (the call s() followed by the callback f(val)).  Reduce, *)
(* Collect and Take are built on ForEach exactly as in the source.         *)
(*                                                                         *)
(* A channel is fed by one producer goroutine (README, Hello World         *)
(* (channels)): it sends its words in order and then closes the channel.   *)
(***************************************************************************)
EXTENDS Integers, Sequences, FiniteSets, TLC

\* ------------------------------------------------------------------ bounds
IntBits == 6      \* width of the modelled integer type (Go: int, rune)
MaxN    == 7      \* largest n of Range(0, n) / Take(s, n) explored
MaxLen  == 3      \* longest slice / list of words sent on the channel
MaxVal  == 2      \* element values are 0..MaxVal
MaxCap  == 2      \* channel capacities 0..MaxCap (0 = unbuffered)

Mod     == 2 ^ IntBits
Half    == 2 ^ (IntBits - 1)
MaxInt  == Half - 1
MinInt  == 0 - Half
MaxCalls == Mod + 2   \* cap on the number of loop iterations explored

Val     == 0 .. MaxVal
Lists   == UNION { [1 .. n -> Val] : n \in 0 .. MaxLen }

\* Two's complement wrap-around of Go integer arithmetic.
Wrap(x) == ((x + Half) % Mod) - Half

\* ------------------------------------------------------- step protocol
\* zero[T]() : the zero value of the element type of stream s.
RECURSIVE zero(_)
zero(s) ==
  IF s.kind = "Zip" THEN [First |-> zero(s.a), Second |-> zero(s.b)] ELSE 0

\* Result of one call of a stream closure.  st is "ok", "block" (the call
\* is suspended in a channel receive) or "panic" (run-time panic).
Ret(val, ok, s, c, st) == [val |-> val, ok |-> ok, s |-> s, c |-> c, st |-> st]

More(t, s, c) == Ret(t, TRUE, s, c, "ok")

Done(s, c) == Ret(zero(s), FALSE, s, c, "ok")

\* ------------------------------------------------- captured functions
\* func(A) B values handed to Map: x + k, or the slice lookup s[i] of
\* Elements.
Apply(f, x) ==
  CASE f.op = "add"   -> Wrap(x + f.k)
    [] f.op = "index" -> f.s[x + 1]

\* s[i] panics for an index outside 0..len(s)-1.
Panics(f, x) == f.op = "index" /\ x \notin 0 .. (Len(f.s) - 1)

\* func(T) bool values handed to Filter: s == w1 || s == w2 || ...
Test(f, x) == x \in f.set

\* ------------------------------------------------------------ streams
Range(a, b) == [kind |-> "Range", a |-> a, b |-> b]

Indices(s) == Range(0, Len(s))

Map(in, f) == [kind |-> "Map", in |-> in, f |-> f]

Elements(s) == Map(Indices(s), [op |-> "index", s |-> s])

Recieve == [kind |-> "Recieve"]

Filter(s, f) == [kind |-> "Filter", s |-> s, f |-> f]

Zip(a, b) == [kind |-> "Zip", a |-> a, b |-> b]

Infinite(f) == [kind |-> "Infinite", f |-> f]

Iota == Infinite([op |-> "iota", i |-> 0])

\* ------------------------------------------------------------ channel
\* A Go channel: capacity, buffered values, the value of the sender parked
\* on a full (or unbuffered) channel, and the closed flag.  rcvd and ret are
\* history: the values received so far and the result of the last receive.
MakeChan(cap) ==
  [cap |-> cap, buf |-> <<>>, sendq |-> <<>>, closed |-> FALSE,
   rcvd |-> <<>>, ret |-> [val |-> 0, ok |-> TRUE]]

\* Variant: a closed channel reports exhaustion although values are still
\* buffered.
RecieveFnDropsBuffered(s, c) ==
  IF c.closed
  THEN Ret(0, FALSE, s, [c EXCEPT !.ret = [val |-> 0, ok |-> FALSE]], "ok")
  ELSE IF c.buf # <<>>
  THEN LET v == Head(c.buf) IN
       More(v, s, [c EXCEPT !.buf = Tail(c.buf) \o c.sendq, !.sendq = <<>>,
                            !.rcvd = Append(c.rcvd, v),
                            !.ret = [val |-> v, ok |-> TRUE]])
  ELSE IF c.sendq # <<>>
  THEN LET v == Head(c.sendq) IN
       More(v, s, [c EXCEPT !.sendq = <<>>,
                            !.rcvd = Append(c.rcvd, v),
                            !.ret = [val |-> v, ok |-> TRUE]])
  ELSE Ret(0, FALSE, s, c, "block")

\* val, has_val := <-c
RecieveFn(s, c) ==
  IF c.buf # <<>>
  THEN LET v == Head(c.buf) IN
       More(v, s, [c EXCEPT !.buf = Tail(c.buf) \o c.sendq, !.sendq = <<>>,
                            !.rcvd = Append(c.rcvd, v),
                            !.ret = [val |-> v, ok |-> TRUE]])
  ELSE IF c.sendq # <<>>
  THEN LET v == Head(c.sendq) IN
       More(v, s, [c EXCEPT !.sendq = <<>>,
                            !.rcvd = Append(c.rcvd, v),
                            !.ret = [val |-> v, ok |-> TRUE]])
  ELSE IF c.closed
  THEN Ret(0, FALSE, s, [c EXCEPT !.ret = [val |-> 0, ok |-> FALSE]], "ok")
  ELSE Ret(0, FALSE, s, c, "block")

\* Variant: the cursor is incremented before it is read.
RangeFnIncrementsFirst(s, c) ==
  IF s.a = s.b
  THEN Done(s, c)
  ELSE More(Wrap(s.a + 1), [s EXCEPT !.a = Wrap(s.a + 1)], c)

\* if a == b { return Done }; next := a; a++; return More(next)
RangeFn(s, c) ==
  IF s.a = s.b
  THEN Done(s, c)
  ELSE More(s.a, [s EXCEPT !.a = Wrap(s.a + 1)], c)

InfiniteFn(s, c) ==
  More(s.f.i, [s EXCEPT !.f.i = Wrap(s.f.i + 1)], c)

RECURSIVE Call(_, _)

\* next, done := in(); if done { return Done } ; return More(f(next))
MapFn(s, c) ==
  LET r  == Call(s.in, c)
      s1 == [s EXCEPT !.in = r.s]
  IN  IF r.st # "ok" THEN Ret(zero(s), FALSE, s1, r.c, r.st)
      ELSE IF r.ok THEN Done(s1, r.c)
      ELSE IF Panics(s.f, r.val) THEN Ret(zero(s), FALSE, s1, r.c, "panic")
      ELSE More(Apply(s.f, r.val), s1, r.c)

\* val, has_val := s(); if !has_val { return Done }; return val, f(val)
FilterFn(s, c) ==
  LET r  == Call(s.s, c)
      s1 == [s EXCEPT !.s = r.s]
  IN  IF r.st # "ok" THEN Ret(r.val, FALSE, s1, r.c, r.st)
      ELSE IF ~r.ok THEN Done(s1, r.c)
      ELSE Ret(r.val, Test(s.f, r.val), s1, r.c, "ok")

\* Variant: b() is called before a().
ZipFnCallsBFirst(s, c) ==
  LET rb == Call(s.b, c)
      s1 == [s EXCEPT !.b = rb.s]
  IN  IF rb.st # "ok" THEN Ret(zero(s), FALSE, s1, rb.c, rb.st)
      ELSE IF ~rb.ok THEN Done(s1, rb.c)
      ELSE LET ra == Call(s.a, rb.c)
               s2 == [s1 EXCEPT !.a = ra.s]
           IN  IF ra.st # "ok" THEN Ret(zero(s), FALSE, s2, ra.c, ra.st)
               ELSE IF ~ra.ok THEN Done(s2, ra.c)
               ELSE More([First |-> ra.val, Second |-> rb.val], s2, ra.c)

\* Variant: the pair is built in the wrong order.
ZipFnSwapped(s, c) ==
  LET ra == Call(s.a, c)
      s1 == [s EXCEPT !.a = ra.s]
  IN  IF ra.st # "ok" THEN Ret(zero(s), FALSE, s1, ra.c, ra.st)
      ELSE IF ~ra.ok THEN Done(s1, ra.c)
      ELSE LET rb == Call(s.b, ra.c)
               s2 == [s1 EXCEPT !.b = rb.s]
           IN  IF rb.st # "ok" THEN Ret(zero(s), FALSE, s2, rb.c, rb.st)
               ELSE IF ~rb.ok THEN Done(s2, rb.c)
               ELSE More([First |-> rb.val, Second |-> ra.val], s2, rb.c)

\* a() first; Done when it is exhausted, without calling b(); then b().
ZipFn(s, c) ==
  LET ra == Call(s.a, c)
      s1 == [s EXCEPT !.a = ra.s]
  IN  IF ra.st # "ok" THEN Ret(zero(s), FALSE, s1, ra.c, ra.st)
      ELSE IF ~ra.ok THEN Done(s1, ra.c)
      ELSE LET rb == Call(s.b, ra.c)
               s2 == [s1 EXCEPT !.b = rb.s]
           IN  IF rb.st # "ok" THEN Ret(zero(s), FALSE, s2, rb.c, rb.st)
               ELSE IF ~rb.ok THEN Done(s2, rb.c)
               ELSE More([First |-> ra.val, Second |-> rb.val], s2, rb.c)

\* Calling the closure s.
Call(s, c) ==
  CASE s.kind = "Range"    -> RangeFn(s, c)
    [] s.kind = "Recieve"  -> RecieveFn(s, c)
    [] s.kind = "Map"      -> MapFn(s, c)
    [] s.kind = "Filter"   -> FilterFn(s, c)
    [] s.kind = "Zip"      -> ZipFn(s, c)
    [] s.kind = "Infinite" -> InfiniteFn(s, c)

\* ---------------------------------------------------------- consumers
Break    == 0
Continue == 1

\* The callbacks handed to the consumers.
\*   sum          : func(init, val int) int { return init + val }   (test)
\*   append       : func(ret []T, el T) []T { return append(ret, el) }
\*   appendSecond : func(ret []T, el Pair[int, T]) []T
\*                      { return append(ret, el.Second) }
Combine(f, init, a) ==
  CASE f.op = "sum"          -> Wrap(init + a)
    [] f.op = "append"       -> Append(init, a)
    [] f.op = "appendSecond" -> Append(init, a.Second)

\* Variant: the result of f is not stored back into init.
ReduceFnDiscards(f, init, a) == init

\* The closure Reduce hands to ForEach: func(a A) { init = f(init, a) }.
\* The result is the new value of the captured init.
ReduceFn(f, init, a) == Combine(f, init, a)

\* A func(T) Control that breaks at the value f.v (section 8 of the spec).
Cntl(f, a) == IF a = f.v THEN Break ELSE Continue

\* A running consumer: the loop it executes, the stream it drives, the
\* accumulator captured by the callback and the callback.
Reduce(s, init, f) == [loop |-> "ForEach", s |-> s, init |-> init, f |-> f]

Collect(s) == Reduce(s, <<>>, [op |-> "append"])

\* Variant: the index range is one too long.
TakeOneMore(s, i) == Reduce(Zip(Range(0, i + 1), s), <<>>, [op |-> "appendSecond"])

Take(s, i) == Reduce(Zip(Range(0, i), s), <<>>, [op |-> "appendSecond"])

\* ForEachControl whose callback records what it observes and breaks at v.
Control(s, v) ==
  [loop |-> "ForEachControl", s |-> s, init |-> <<>>, f |-> [op |-> "breakAt", v |-> v]]

\* ------------------------------------------------------------ programs
Caps   == 0 .. MaxCap
Preds  == { [op |-> "in", set |-> S] : S \in SUBSET Val }
Adds   == { [op |-> "add", k |-> k] : k \in {1, 10} }
Froms  == 0 .. 1
Lens   == 0 .. (MaxLen + 1)
Bounds == -2 .. 3
Counts == -1 .. (MaxLen + 1)
Brks   == Val \cup {3, -1}

\* Programs whose source is the channel fed by the producer.
ChanTests ==
  LET T(name, main, p) == [name |-> name, main |-> main, p |-> p] IN
       { T("CollectRecieve", Collect(Recieve), 0) }
  \cup { T("CollectFilter", Collect(Filter(Recieve, f)), f) : f \in Preds }
  \cup { T("CollectMap", Collect(Map(Recieve, f)), f) : f \in Adds }
  \cup { T("ZipRangeRecieve", Collect(Zip(Range(a, a + n), Recieve)), <<a, n>>)
           : a \in Froms, n \in Lens }
  \cup { T("ZipRecieveRange", Collect(Zip(Recieve, Range(a, a + n))), <<a, n>>)
           : a \in Froms, n \in Lens }
  \cup { T("TakeRecieve", Take(Recieve, i), i) : i \in Counts }
  \cup { T("ControlRecieve", Control(Recieve, v), v) : v \in Brks }

\* Programs that use no channel.
PureTests ==
  LET T(name, main, p) == [name |-> name, main |-> main, p |-> p] IN
       { T("CollectRange", Collect(Range(a, b)), <<a, b>>) : a \in Bounds, b \in Bounds }
  \cup { T("ReduceSum", Reduce(Range(0, n), 0, [op |-> "sum"]), n) : n \in 0 .. MaxN }
  \cup { T("CollectElements", Collect(Elements(s)), s) : s \in Lists }
  \cup { T("FilterElements", Collect(Filter(Elements(s), f)), <<s, f>>)
           : s \in Lists, f \in Preds }
  \cup { T("MapRange", Collect(Map(Range(0, n), f)), <<n, f>>) : n \in Lens, f \in Adds }
  \cup { T("FilterRange", Collect(Filter(Range(0, n), f)), <<n, f>>) : n \in Lens, f \in Preds }
  \cup { T("ZipRangeRange", Collect(Zip(Range(a, a + n), Range(10, 10 + m))), <<a, n, m>>)
           : a \in Froms, n \in Lens, m \in Lens }
  \cup { T("TakeIota", Take(Iota, i), i) : i \in Counts }
  \cup { T("TakeRange", Take(Range(a, a + n), i), <<a, n, i>>)
           : a \in Froms, n \in Lens, i \in Counts }
  \cup { T("ControlRange", Control(Range(1, 1 + n), v), <<n, v>>) : n \in Lens, v \in Brks }

\* -------------------------------------------------------------- state
VARIABLES
  test,     \* the program being run (fixed)
  sent,     \* the words the producer sends, in order (fixed)
  closes,   \* whether the producer closes the channel after its last word
  stream,   \* the stream the consumer drives
  acc,      \* the accumulator captured by the consumer's callback
  pc,       \* consumer: "run", "done" (returned) or "panic"
  chan,     \* the channel
  words,    \* the words the producer has not sent yet
  calls,    \* number of calls of the outermost stream so far
  out,      \* result of the last call of the outermost stream
  rest      \* result of the call made on an input of Zip after Zip is Done

vars == <<test, sent, closes, stream, acc, pc, chan, words, calls, out, rest>>

Init ==
  /\ \/ /\ test \in ChanTests
        /\ sent \in Lists
        /\ closes \in BOOLEAN
        /\ \E cap \in Caps : chan = MakeChan(cap)
     \/ /\ test \in PureTests
        /\ sent = <<>>
        /\ closes = FALSE
        /\ chan = MakeChan(0)
  /\ words = sent
  /\ stream = test.main.s
  /\ acc = test.main.init
  /\ pc = "run"
  /\ calls = 0
  /\ out = [val |-> zero(test.main.s), ok |-> TRUE]
  /\ rest = [side |-> "none", val |-> 0, ok |-> TRUE]

\* One iteration of
\*   for val, has_val := s(); has_val; val, has_val = s() { f(val) }
ForEach ==
  /\ pc = "run"
  /\ test.main.loop = "ForEach"
  /\ calls < MaxCalls
  /\ LET r == Call(stream, chan) IN
       /\ r.st # "block"
       /\ stream' = r.s
       /\ chan' = r.c
       /\ out' = [val |-> r.val, ok |-> r.ok]
       /\ IF r.st = "panic" THEN pc' = "panic" /\ acc' = acc
          ELSE IF r.ok THEN pc' = "run" /\ acc' = ReduceFn(test.main.f, acc, r.val)
          ELSE pc' = "done" /\ acc' = acc
  /\ calls' = calls + 1
  /\ UNCHANGED <<test, sent, closes, words, rest>>

\* Variant: the loop goes on after the callback returned Break.
ForEachControlIgnoresBreak ==
  /\ pc = "run"
  /\ test.main.loop = "ForEachControl"
  /\ calls < MaxCalls
  /\ LET r == Call(stream, chan) IN
       /\ r.st # "block"
       /\ stream' = r.s
       /\ chan' = r.c
       /\ out' = [val |-> r.val, ok |-> r.ok]
       /\ IF r.st = "panic" THEN pc' = "panic" /\ acc' = acc
          ELSE IF r.ok
          THEN acc' = Append(acc, r.val) /\ pc' = "run"
          ELSE pc' = "done" /\ acc' = acc
  /\ calls' = calls + 1
  /\ UNCHANGED <<test, sent, closes, words, rest>>

\* One iteration of the loop of ForEachControl.
ForEachControl ==
  /\ pc = "run"
  /\ test.main.loop = "ForEachControl"
  /\ calls < MaxCalls
  /\ LET r == Call(stream, chan) IN
       /\ r.st # "block"
       /\ stream' = r.s
       /\ chan' = r.c
       /\ out' = [val |-> r.val, ok |-> r.ok]
       /\ IF r.st = "panic" THEN pc' = "panic" /\ acc' = acc
          ELSE IF r.ok
          THEN /\ acc' = Append(acc, r.val)
               /\ pc' = IF Cntl(test.main.f, r.val) = Break THEN "done" ELSE "run"
          ELSE pc' = "done" /\ acc' = acc
  /\ calls' = calls + 1
  /\ UNCHANGED <<test, sent, closes, words, rest>>

\* Producer: words <- w.  The value goes into the buffer when there is
\* room; otherwise the producer parks on the channel until a receive takes
\* its value.
Send ==
  /\ words # <<>>
  /\ chan.sendq = <<>>
  /\ ~chan.closed
  /\ IF Len(chan.buf) < chan.cap
     THEN chan' = [chan EXCEPT !.buf = Append(@, Head(words))]
     ELSE chan' = [chan EXCEPT !.sendq = <<Head(words)>>]
  /\ words' = Tail(words)
  /\ UNCHANGED <<test, sent, closes, stream, acc, pc, calls, out, rest>>

\* Producer: close(words), after the last send has completed.
Close ==
  /\ closes
  /\ words = <<>>
  /\ chan.sendq = <<>>
  /\ ~chan.closed
  /\ chan' = [chan EXCEPT !.closed = TRUE]
  /\ UNCHANGED <<test, sent, closes, stream, acc, pc, words, calls, out, rest>>

\* After Collect(Zip(a, b)) has returned, the caller reuses one of the two
\* underlying streams: it calls a() or b() directly, once.  (The Zip inside
\* Take is not the caller's: its Range is out of the caller's reach.)
Resume ==
  /\ pc = "done"
  /\ stream.kind = "Zip"
  /\ test.main.f.op = "append"
  /\ \E side \in {"a", "b"} :
       LET r == Call(stream[side], chan) IN
         /\ r.st = "ok"
         /\ stream' = [stream EXCEPT ![side] = r.s]
         /\ chan' = r.c
         /\ rest' = [side |-> side, val |-> r.val, ok |-> r.ok]
  /\ pc' = "resumed"
  /\ UNCHANGED <<test, sent, closes, acc, words, calls, out>>

Next == ForEach \/ ForEachControl \/ Send \/ Close \/ Resume

Spec == Init /\ [][Next]_vars

TypeOK ==
  /\ pc \in {"run", "done", "panic", "resumed"}
  /\ calls \in 0 .. MaxCalls
  /\ chan.cap \in Caps
  /\ Len(chan.buf) <= chan.cap
  /\ Len(chan.sendq) <= 1

\* The scheduler runs every goroutine that can take a step: the consumer's
\* loop and the producer.
FairSpec ==
  /\ Spec
  /\ WF_vars(ForEach) /\ WF_vars(ForEachControl)
  /\ WF_vars(Send) /\ WF_vars(Close)

\* ------------------------------------------------------------- helpers
\* The list a, a+1, ..., a+n-1.
IntSeq(a, n) == [i \in 1 .. n |-> a + i - 1]

Min(x, y) == IF x <= y THEN x ELSE y

Prefix(seq, n) == SubSeq(seq, 1, Min(n, Len(seq)))

IsPrefix(p, seq) == Len(p) <= Len(seq) /\ p = SubSeq(seq, 1, Len(p))

Keep(seq, f) == SelectSeq(seq, LAMBDA x : Test(f, x))

Image(seq, f) == [i \in 1 .. Len(seq) |-> Apply(f, seq[i])]

Pairs(sa, sb) ==
  [i \in 1 .. Min(Len(sa), Len(sb)) |-> [First |-> sa[i], Second |-> sb[i]]]

\* Position of the first occurrence of v in seq, Len(seq) + 1 when absent.
RECURSIVE FirstAt(_, _)
FirstAt(seq, v) ==
  IF seq = <<>> \/ Head(seq) = v THEN 1 ELSE 1 + FirstAt(Tail(seq), v)

\* combine applied successively to init and the elements of seq.
RECURSIVE FoldLeft(_, _, _)
FoldLeft(f, init, seq) ==
  IF seq = <<>> THEN init ELSE FoldLeft(f, Combine(f, init, Head(seq)), Tail(seq))

Returned == pc \in {"done", "resumed"}

\* -------------------------------------------------------------- claims

\* The source list of a Filter program.
FilterSrc ==
  CASE test.name = "CollectFilter"  -> sent
    [] test.name = "FilterRange"    -> IntSeq(0, test.p[1])
    [] test.name = "FilterElements" -> test.p[1]

FilterPred == IF test.name = "CollectFilter" THEN test.p ELSE test.p[2]

IsFilterTest ==
  \/ test.name = "CollectFilter" /\ closes
  \/ test.name = "FilterRange"

\* C1: Collect(Filter(seq, pred)) is the subsequence of the elements of seq
\* for which pred holds, in source order: a failing element is skipped and
\* later matching elements are still produced.
C1_FilterKeepsAllMatches ==
  (IsFilterTest /\ Returned) => acc = Keep(FilterSrc, FilterPred)

IsMapTest ==
  \/ test.name = "CollectMap" /\ closes
  \/ test.name = "MapRange"

MapSrc == IF test.name = "CollectMap" THEN sent ELSE IntSeq(0, test.p[1])

MapF == IF test.name = "CollectMap" THEN test.p ELSE test.p[2]

\* C2: Collect(Map(seq, f)) is f applied to each element of seq, in order
\* and with the same length; Map yields Done exactly when its source does.
C2_MapIsElementwise ==
  /\ (IsMapTest /\ Returned) => acc = Image(MapSrc, MapF)
  /\ (test.name = "CollectMap" /\ calls > 0) => (out.ok <=> chan.ret.ok)

\* C3: for a <= b, Collect(Range(a, b)) terminates and returns the list
\* a, a+1, ..., b-1 of length b-a.
C3_RangeAscending ==
  /\ [](( test.name = "CollectRange" /\ test.p[1] <= test.p[2] /\ Returned)
          => (acc = IntSeq(test.p[1], test.p[2] - test.p[1])
              /\ Len(acc) = test.p[2] - test.p[1]))
  /\ (test.name = "CollectRange" /\ test.p[1] <= test.p[2]) ~> Returned

C3_Witness ==
  /\ test.name = "CollectRange" /\ test.p[1] = -2 /\ test.p[2] = 3
  /\ Returned /\ acc = <<-2, -1, 0, 1, 2>>

\* C4: Reduce is a left fold in production order: the accumulator after k
\* produced elements is combine applied successively to the initial value
\* and the first k elements, and Reduce(Range(0, n), 0, +) terminates and
\* returns n*(n-1)/2.
C4_ReduceLeftFold ==
  /\ [](test.name = "ReduceSum" =>
          /\ acc = FoldLeft(test.main.f, test.main.init, IntSeq(0, stream.a))
          /\ calls = stream.a + (IF Returned THEN 1 ELSE 0)
          /\ Returned => acc = (test.p * (test.p - 1)) \div 2)
  /\ (test.name = "ReduceSum") ~> Returned

C4_Witness ==
  test.name = "ReduceSum" /\ test.p = MaxN /\ Returned /\ acc = (MaxN * (MaxN - 1)) \div 2

\* C5: successive advances of Elements(s) yield s[0], ..., s[len(s)-1] and
\* then Done; no advance fails or reads an index outside 0..len(s)-1, so
\* Collect(Elements(s)) equals s.
C5_ElementsYieldsSlice ==
  test.name = "CollectElements" =>
    /\ pc # "panic"
    /\ Returned => acc = test.p

IsZipTest == test.name \in {"ZipRangeRecieve", "ZipRecieveRange", "ZipRangeRange"}

ZipA == IF test.name = "ZipRecieveRange" THEN sent ELSE IntSeq(test.p[1], test.p[2])

ZipB ==
  CASE test.name = "ZipRangeRecieve" -> sent
    [] test.name = "ZipRecieveRange" -> IntSeq(test.p[1], test.p[2])
    [] test.name = "ZipRangeRange"   -> IntSeq(10, test.p[3])

\* C6: Zip(a, b) yields exactly min(len(a), len(b)) pairs before Done, and
\* the i-th pair is (i-th element of a, i-th element of b).
C6_ZipAligned ==
  IsZipTest =>
    /\ IsPrefix(acc, Pairs(ZipA, ZipB))
    /\ Returned => /\ acc = Pairs(ZipA, ZipB)
                   /\ Len(acc) = Min(Len(ZipA), Len(ZipB))

C6_Witness ==
  /\ test.name = "ZipRecieveRange" /\ Len(sent) = 3 /\ test.p = <<1, 2>>
  /\ Returned /\ Len(acc) = 2 /\ acc[2] = [First |-> sent[2], Second |-> 2]

IsTakeTest == test.name \in {"TakeRecieve", "TakeIota", "TakeRange"}

TakeCount == IF test.name = "TakeRange" THEN test.p[3] ELSE test.p

\* What Take must return: the first TakeCount elements of the sequence, or
\* all of them when it has fewer.
TakeExpected ==
  CASE test.name = "TakeRecieve" -> Prefix(sent, TakeCount)
    [] test.name = "TakeRange"   -> Prefix(IntSeq(test.p[1], test.p[2]), TakeCount)
    [] test.name = "TakeIota"    -> IntSeq(0, TakeCount)

\* The sequence handed to Take has TakeCount elements or exhausts.
TakeCanReturn ==
  test.name = "TakeRecieve" => (closes \/ Len(sent) >= TakeCount)

\* C7: for n >= 0, Take(seq, n) returns the first n elements of seq in order
\* when seq has at least n elements (and terminates even when seq is
\* infinite), and otherwise returns all elements in order.
C7_TakeFirstN ==
  /\ []((IsTakeTest /\ TakeCount >= 0 /\ Returned) => acc = TakeExpected)
  /\ (IsTakeTest /\ TakeCount >= 0 /\ TakeCanReturn) ~> Returned

C7_Witness ==
  /\ test.name = "TakeIota" /\ TakeCount = 3 /\ Returned /\ acc = <<0, 1, 2>>

IsControlTest == test.name \in {"ControlRange", "ControlRecieve"}

ControlSrc == IF test.name = "ControlRange" THEN IntSeq(1, test.p[1]) ELSE sent

ControlBrk == test.main.f.v

\* The callback has returned Break.
Broke == Returned /\ acc # <<>> /\ acc[Len(acc)] = ControlBrk

\* C8: ForEachControl invokes the callback on the produced elements in order
\* up to and including the first one for which it returns Break, never on a
\* later one, and does not advance the sequence after the Break; with no
\* Break the callback observes every element until Done.
C8_BreakStops ==
  IsControlTest =>
    LET upto == Prefix(ControlSrc, FirstAt(ControlSrc, ControlBrk)) IN
      /\ IsPrefix(acc, upto)
      /\ Returned => acc = upto
      /\ Broke => /\ calls = Len(acc)
                  /\ ~ENABLED ForEachControl
                  /\ test.name = "ControlRange" => stream.a = 1 + Len(acc)
                  /\ test.name = "ControlRecieve" => chan.rcvd = acc

C8_Witness ==
  /\ test.name = "ControlRange" /\ test.p = <<4, 3>>
  /\ Returned /\ acc = <<1, 2, 3>> /\ calls = 3 /\ stream.a = 4

\* The values handed to the channel and not yet received, oldest first.
Undelivered == chan.buf \o chan.sendq

\* C9: an advance of Recieve returns Done iff the channel is closed and
\* every value sent before the close has been delivered; otherwise it
\* returns the oldest undelivered value (send order, none lost or
\* duplicated), and it blocks while the channel is open and empty.
C9_RecieveDoneIffClosedAndDrained ==
  /\ [](test.name = "CollectRecieve" =>
          /\ chan.rcvd \o Undelivered \o words = sent
          /\ acc = chan.rcvd
          /\ (pc = "run" /\ ~chan.closed /\ Undelivered = <<>>) => ~ENABLED ForEach
          /\ (pc = "run" /\ (chan.closed \/ Undelivered # <<>>)) => ENABLED ForEach)
  /\ [][(test.name = "CollectRecieve" /\ calls' = calls + 1) =>
          /\ ~out'.ok <=> (chan.closed /\ Undelivered = <<>>)
          /\ ~out'.ok => (chan.rcvd = sent /\ chan' .rcvd = sent)
          /\ out'.ok => /\ Undelivered # <<>>
                        /\ out'.val = Head(Undelivered)
                        /\ chan'.rcvd = Append(chan.rcvd, out'.val)
                        /\ chan'.buf \o chan'.sendq = Tail(Undelivered)]_vars

C9_Witness ==
  /\ test.name = "CollectRecieve" /\ Len(sent) = 3 /\ sent[1] # sent[2]
  /\ Returned /\ acc = sent /\ chan.closed /\ ~out.ok

IsEmptyRangeTest ==
  \/ test.name = "CollectRange" /\ test.p[1] >= test.p[2]
  \/ IsTakeTest /\ TakeCount < 0

\* C10: for Range(a, b) with a >= b the very first advance returns Done and
\* no element is ever produced, so Collect(Range(a, b)) is empty; Take with
\* a negative count returns an empty collection.
C10_InvalidRangeIsEmpty ==
  IsEmptyRangeTest =>
    /\ acc = <<>>
    /\ calls > 0 => Returned

\* The input of Zip that has elements left when the other one is exhausted
\* ("none" when both have the same length).
ZipLonger ==
  IF Len(ZipA) > Len(ZipB) THEN "a"
  ELSE IF Len(ZipB) > Len(ZipA) THEN "b" ELSE "none"

ZipPaired == Min(Len(ZipA), Len(ZipB))

\* The caller has advanced the longer input of Zip after Zip returned Done.
ResumedLonger ==
  IsZipTest /\ pc = "resumed" /\ rest.side = ZipLonger

\* C11 (as stated): once Zip(a, b) has returned Done, the longer input has
\* had no element consumed beyond those yielded in pairs, so the next advance
\* made directly on it returns its first unpaired element, whichever of the
\* two arguments is the longer one.
C11_ZipLeavesLongerUntouched ==
  ResumedLonger =>
    /\ rest.ok
    /\ rest.val = (IF rest.side = "a" THEN ZipA ELSE ZipB)[ZipPaired + 1]

\* C11 (amended): when the second argument is the longer one it has had no
\* element consumed beyond those paired and its next advance returns its
\* first unpaired element; when the first argument is the longer one, Zip
\* has consumed exactly one unpaired element of it, and its next advance
\* returns its second unpaired element, or Done when there is none.
C11_ZipConsumesOneUnpairedOfFirst ==
  ResumedLonger =>
    /\ rest.side = "b" => (rest.ok /\ rest.val = ZipB[ZipPaired + 1])
    /\ rest.side = "a" =>
         IF Len(ZipA) >= ZipPaired + 2
         THEN rest.ok /\ rest.val = ZipA[ZipPaired + 2]
         ELSE ~rest.ok

C11_Witness ==
  /\ test.name = "ZipRangeRange" /\ test.p = <<0, 3, 1>>
  /\ pc = "resumed" /\ acc = <<[First |-> 0, Second |-> 10]>>
  /\ rest = [side |-> "a", val |-> 2, ok |-> TRUE]

====
